---- MODULE Spec2Model ----
(***************************************************************************)
(* Model of tools/process_heightmap.py: the multi-LOD heightmap tile       *)
(* processor.  One run of process_heightmap is a sequential program; its   *)
(* position is pc, and every tile of every loop is one step.               *)
(***************************************************************************)
EXTENDS Integers, Naturals, Sequences, FiniteSets, TLC

VARIABLES
    pc,            \* position of process_heightmap
    inputKind,     \* "missing" | "corrupt" | "ok": what input_path holds
    generate_lod,  \* the generate_lod argument
    srcW, srcH,    \* size of the image stored at input_path
    img,           \* gray levels of the stored image and of the resampler's output
    width, height, \* img.size as read at line 77 (0 before the image is loaded)
    min_value, max_value,  \* gray levels k standing for the float32 value k/255
    preDirs,       \* directories that exist when the run starts
    dirs,          \* directories that exist
    created,       \* directories created by this run
    files,         \* tile path -> content, for the files this run opened for writing
    torn,          \* tile paths whose write raised after the file was opened
    lod_tiles,     \* metadata["lod_tiles"]: level -> (key -> record)
    tiles,         \* metadata["tiles"]: key -> record
    docs,          \* metadata documents written: name -> snapshot
    lod, tx, ty,   \* loop variables of the tile loops
    failure,       \* why the run stopped early, "none" while it has not
    qv, qmin, qmax, qcode  \* inputs and result of the quantizer on its own

vars == <<pc, inputKind, generate_lod, srcW, srcH, img, width, height,
          min_value, max_value, preDirs, dirs, created, files, torn,
          lod_tiles, tiles, docs, lod, tx, ty, failure, qv, qmin, qmax, qcode>>

runVars == <<pc, inputKind, generate_lod, srcW, srcH, img, width, height,
             min_value, max_value, preDirs, dirs, created, files, torn,
             lod_tiles, tiles, docs, lod, tx, ty, failure>>

quantVars == <<qv, qmin, qmax, qcode>>

----------------------------------------------------------------------------
(* Program constants *)

TILE_SIZE == 512

MAX_LOD_LEVELS == 4

MinTileEdge == 32

MaxCode == 65535

(* Bounds of the model *)

\* number of whole base tiles a modelled source may extend over, per axis
MaxWholeTiles == 1

\* number of gray levels the quantizer is tried on, spread over 0..255
QuantLevels == 9

----------------------------------------------------------------------------
(* Arithmetic helpers *)

Min2(a, b) == IF a <= b THEN a ELSE b

Max2(a, b) == IF a >= b THEN a ELSE b

\* math.ceil(a / b) for a >= 0, b > 0
CeilDiv(a, b) == (a + b - 1) \div b

RECURSIVE Pow2(_)
Pow2(n) == IF n = 0 THEN 1 ELSE 2 * Pow2(n - 1)

\* number of binary digits of n >= 0
RECURSIVE BitLen(_)
BitLen(n) == IF n = 0 THEN 0 ELSE 1 + BitLen(n \div 2)

----------------------------------------------------------------------------
(* IEEE-754 binary32 arithmetic, as numpy performs it on float32 arrays.   *)
(* A float is [m, e] standing for m * 2^e, with m = 0 or 2^23 <= m < 2^24. *)
(* All intermediate integers stay below 2^31.                              *)

FZero == [m |-> 0, e |-> 0]

\* Round n * 2^e (n < 2^31) to 24 significant bits, ties to even; sticky
\* says that the exact value has further nonzero bits below n (then n has
\* at least 25 bits).
FRound(n, e, sticky) ==
    IF n = 0 THEN FZero
    ELSE LET bl == BitLen(n) IN
         IF bl <= 24
         THEN [m |-> n * Pow2(24 - bl), e |-> e - (24 - bl)]
         ELSE LET s    == bl - 24
                  q    == n \div Pow2(s)
                  r    == n % Pow2(s)
                  half == Pow2(s - 1)
                  up   == \/ r > half
                          \/ r = half /\ (sticky \/ q % 2 = 1)
                  m1   == IF up THEN q + 1 ELSE q
              IN IF m1 = Pow2(24)
                 THEN [m |-> Pow2(23), e |-> e + s + 1]
                 ELSE [m |-> m1, e |-> e + s]

\* np.float32(n) for an integer 0 <= n < 2^24 (exact)
FFromInt(n) == FRound(n, 0, FALSE)

\* x < y for floats x, y >= 0
FLess(x, y) ==
    IF y.m = 0 THEN FALSE
    ELSE IF x.m = 0 THEN TRUE
    ELSE x.e < y.e \/ (x.e = y.e /\ x.m < y.m)

\* n further quotient bits of r / d, with quotient q so far: <<quotient, remainder>>
RECURSIVE LongDiv(_, _, _, _)
LongDiv(q, r, d, n) ==
    IF n = 0 THEN <<q, r>>
    ELSE IF 2 * r >= d THEN LongDiv(2 * q + 1, 2 * r - d, d, n - 1)
                       ELSE LongDiv(2 * q, 2 * r, d, n - 1)

\* float32 division x / y, y > 0
FDiv(x, y) ==
    IF x.m = 0 THEN FZero
    ELSE LET qr == LongDiv(x.m \div y.m, x.m % y.m, y.m, 26)
         IN FRound(qr[1], x.e - y.e - 26, qr[2] # 0)

\* float32 subtraction x - y for x >= y >= 0 whose exponents differ by at
\* most 8 (two limbs of 16 bits hold the exact difference)
FSub(x, y) ==
    IF y.m = 0 THEN x
    ELSE LET d  == x.e - y.e
             XH == x.m \div Pow2(16 - d)
             XL == (x.m % Pow2(16 - d)) * Pow2(d)
             YH == y.m \div Pow2(16)
             YL == y.m % Pow2(16)
             b  == IF XL < YL THEN 1 ELSE 0
             DL == XL - YL + b * Pow2(16)
             DH == XH - YH - b
         IN IF DH < Pow2(14)
            THEN FRound(DH * Pow2(16) + DL, y.e, FALSE)
            ELSE FRound(DH * Pow2(10) + DL \div Pow2(6), y.e + 6, DL % Pow2(6) # 0)

\* float32 product x * n for an integer 0 < n < 2^16 (n is exact in float32)
FMulInt(x, n) ==
    IF x.m = 0 THEN FZero
    ELSE LET ph == x.m \div Pow2(12)
             pl == x.m % Pow2(12)
             A  == ph * n + (pl * n) \div Pow2(12)
             B  == (pl * n) % Pow2(12)
         IN IF A < Pow2(18)
            THEN FRound(A * Pow2(12) + B, x.e, FALSE)
            ELSE IF A < Pow2(25)
            THEN FRound(A * Pow2(6) + B \div Pow2(6), x.e + 6, B % Pow2(6) # 0)
            ELSE FRound(A, x.e + 12, B # 0)

\* x.clip(0, 65535).astype(np.uint16) for a float x >= 0: clip, then drop
\* the fraction
FClipToUint16(x) ==
    IF x.m = 0 THEN 0
    ELSE IF x.e + 24 > 16 THEN MaxCode
    ELSE IF x.e >= 0 THEN x.m * Pow2(x.e)
    ELSE IF -x.e >= 24 THEN 0
    ELSE x.m \div Pow2(-x.e)

----------------------------------------------------------------------------
(* Quantizer *)

\* one element of np.array(img, dtype=np.float32) / 255.0 for gray level k
GrayF(k) == FDiv(FFromInt(k), FFromInt(255))

\* value_range = max_value - min_value if max_value > min_value else 1.0,
\* as the float32 the array division uses
ValueRangeF(mn, mx) ==
    IF FLess(GrayF(mn), GrayF(mx)) THEN FSub(GrayF(mx), GrayF(mn)) ELSE FFromInt(1)

\* ((v - min_value) / value_range * 65535.0).clip(0, 65535).astype(np.uint16)
\* for the sample of gray level k; a negative difference stays negative
\* through the division and the product and is clipped to 0
Quantize(k, mn, mx) ==
    IF FLess(GrayF(k), GrayF(mn)) THEN 0
    ELSE FClipToUint16(FMulInt(FDiv(FSub(GrayF(k), GrayF(mn)), ValueRangeF(mn, mx)), MaxCode))

----------------------------------------------------------------------------
(* Inputs of a run *)

\* widths and heights of the modelled sources: a number of whole base tiles
\* plus a partial or last tile
EdgeOffsets == {1, 2, 188, 488, TILE_SIZE}

Sizes == {t * TILE_SIZE + d : t \in 0..MaxWholeTiles, d \in EdgeOffsets}

\* Gray levels <<g1, g2, g3>> of an image: the stored image is a checkerboard
\* of g1 and g2, and the resampled images (the resampler may overshoot the
\* source's range) are checkerboards of g2 and g3.
ImageGrays == {<<0, 0, 0>>, <<10, 17, 14>>, <<10, 17, 20>>}

\* gray levels the quantizer is tried on by itself
QGrays == (0..(QuantLevels - 2)) \cup {255}

----------------------------------------------------------------------------
(* Images *)

\* lod_images[L].shape (lines 130-141): the source for level 0, else the
\* source resized to max(size // 2^L, 1)
LodWidth(L) == IF L = 0 THEN width ELSE Max2(width \div Pow2(L), 1)

LodHeight(L) == IF L = 0 THEN height ELSE Max2(height \div Pow2(L), 1)

\* gray level of lod_images[L][y, x]
Pixel(L, x, y) ==
    IF L = 0 THEN (IF (x + y) % 2 = 0 THEN img[1] ELSE img[2])
             ELSE (IF (x + y) % 2 = 0 THEN img[2] ELSE img[3])

\* gray levels present in the stored image (a checkerboard shows all of its
\* levels in its top-left 2 x 2 block)
SourceGrays ==
    {IF (x + y) % 2 = 0 THEN img[1] ELSE img[2] :
        x \in 0..(Min2(srcW, 2) - 1), y \in 0..(Min2(srcH, 2) - 1)}

SetMin(S) == CHOOSE a \in S : \A b \in S : a <= b

SetMax(S) == CHOOSE a \in S : \A b \in S : a >= b

\* length of the Python slice [lo:hi] of an axis of n elements, 0 <= lo
SliceLen(lo, hi, n) == Max2(0, Min2(hi, n) - Min2(lo, n))

----------------------------------------------------------------------------
(* File system and tile files *)

Root == <<"out">>

LodDir(L) == <<"lod", L>>

TilePath(d, x, y) == [dir |-> d, key |-> <<x, y>>]

\* the header packed most significant byte first ('>HH')
PackHHBigEndian(w, h) == <<(w \div 256) % 256, w % 256, (h \div 256) % 256, h % 256>>

\* struct.pack('<HH', w, h): two little-endian unsigned 16-bit integers
PackHH(w, h) == <<w % 256, (w \div 256) % 256, h % 256, (h \div 256) % 256>>

\* What save_tile_binary(path, data, w, h) puts into the file, where data is
\* the quantized slice [y0:y0+h, x0:x0+w] of lod_images[L]: the packed header,
\* then data.tobytes().  The payload is held as the slice it is made of
\* (field, origin, shape, quantization range) with the codes of its first and
\* last samples; nbytes is the file's length.
TileBytes(L, x0, y0, w, h) ==
    LET cols == SliceLen(x0, x0 + w, LodWidth(L))
        rows == SliceLen(y0, y0 + h, LodHeight(L))
    IN [hdr    |-> PackHH(w, h),
        field  |-> L,
        origin |-> <<x0, y0>>,
        rows   |-> rows,
        cols   |-> cols,
        range  |-> <<min_value, max_value>>,
        first  |-> Quantize(Pixel(L, x0, y0), min_value, max_value),
        last   |-> Quantize(Pixel(L, x0 + cols - 1, y0 + rows - 1), min_value, max_value),
        nbytes |-> 4 + 2 * rows * cols]

\* a file that was opened for writing and never written to
EmptyFile == [nbytes |-> 0]

\* a file whose header was written and whose payload was not
HeaderOnlyFile(w, h) == [hdr |-> PackHH(w, h), nbytes |-> 4]

\* What can happen in save_tile_binary on a path in directory d: open() raises
\* (always, when d does not exist), a write raises, or all of it succeeds.
WriteOutcomes(d) ==
    IF d \in dirs
    THEN {"ok", "open_fails", "header_write_fails", "data_write_fails"}
    ELSE {"open_fails"}

Put(f, k, v) == [a \in DOMAIN f \cup {k} |-> IF a = k THEN v ELSE f[a]]

EmptyMap == [k \in {} |-> 0]

----------------------------------------------------------------------------
(* Tile geometry *)

\* lines 95-96: tiles_x = ceil(width / TILE_SIZE), tiles_y likewise
TilesX == CeilDiv(width, TILE_SIZE)

TilesY == CeilDiv(height, TILE_SIZE)

\* line 204: tile_size_at_lod = max(TILE_SIZE // scale, 32), scale = 1 << lod
TileSizeAtLod(L) == Max2(TILE_SIZE \div Pow2(L), MinTileEdge)

\* lines 207-208
EffectiveTilesX(L) == CeilDiv(LodWidth(L), TileSizeAtLod(L))

EffectiveTilesY(L) == CeilDiv(LodHeight(L), TileSizeAtLod(L))

\* a tile extent that is not clipped to the field (a padded tile)
TileExtentPadded(L, t, n) == TileSizeAtLod(L)

\* lines 221-222: the tile's origin in the LOD image
LodSrc(L, t) == t * TileSizeAtLod(L)

\* lines 223-224
TileExtent(L, t, n) == Min2(TileSizeAtLod(L), n - LodSrc(L, t))

\* a source extent that is not clipped to the source image
OrigExtentUnclipped(L, t, n) == TILE_SIZE * Pow2(L)

\* a source extent clipped to the image size instead of the remaining extent
OrigExtentFromZero(L, t, n) == Min2(TILE_SIZE * Pow2(L), n)

\* lines 244-245: the recorded source origin
OrigSrc(t) == t * TILE_SIZE

\* lines 246-247: the recorded source extent
OrigExtent(L, t, n) == Min2(TILE_SIZE * Pow2(L), n - OrigSrc(t))

\* lines 250-259
LodTileRecord(L, x, y) ==
    [file   |-> TilePath(LodDir(L), x, y),
     width  |-> TileExtent(L, x, LodWidth(L)),
     height |-> TileExtent(L, y, LodHeight(L)),
     src_x  |-> OrigSrc(x),
     src_y  |-> OrigSrc(y),
     src_w  |-> OrigExtent(L, x, width),
     src_h  |-> OrigExtent(L, y, height),
     lod    |-> L]

\* a flat tile extent that is not clipped to the source image
FlatExtentPadded(t, n) == TILE_SIZE

\* lines 278-281: the flat tile's region in the source
FlatSrc(t) == t * TILE_SIZE

FlatExtent(t, n) == Min2(TILE_SIZE, n - FlatSrc(t))

\* lines 297-303
FlatTileRecord(x, y) ==
    [file   |-> TilePath(Root, x, y),
     width  |-> FlatExtent(x, width),
     height |-> FlatExtent(y, height),
     src_x  |-> FlatSrc(x),
     src_y  |-> FlatSrc(y)]

\* range(MAX_LOD_LEVELS if generate_lod else 1)
LevelCount == IF generate_lod THEN MAX_LOD_LEVELS ELSE 1

----------------------------------------------------------------------------
(* Initial states *)

AllLodDirs == {LodDir(L) : L \in 0..(MAX_LOD_LEVELS - 1)}

RunIdle ==
    /\ pc = "idle"
    /\ inputKind = "ok"
    /\ generate_lod = TRUE
    /\ srcW = 1 /\ srcH = 1
    /\ img = <<0, 0, 0>>
    /\ width = 0 /\ height = 0
    /\ min_value = 0 /\ max_value = 0
    /\ preDirs = {} /\ dirs = {} /\ created = {}
    /\ files = EmptyMap /\ torn = {}
    /\ lod_tiles = EmptyMap /\ tiles = EmptyMap /\ docs = EmptyMap
    /\ lod = 0 /\ tx = 0 /\ ty = 0
    /\ failure = "none"

QuantIdle == qv = 0 /\ qmin = 0 /\ qmax = 0 /\ qcode = 0

\* process_heightmap(input_path, output_dir, generate_lod) is about to run
Init ==
    /\ pc = "start"
    /\ inputKind \in {"missing", "corrupt", "ok"}
    /\ generate_lod \in BOOLEAN
    /\ srcW \in Sizes /\ srcH \in Sizes
    /\ img \in ImageGrays
    /\ inputKind # "ok" => (srcW = 1 /\ srcH = 1 /\ img = <<0, 0, 0>>)
    /\ width = 0 /\ height = 0
    /\ min_value = 0 /\ max_value = 0
    /\ preDirs \in {{}, {Root} \cup AllLodDirs}
    /\ dirs = preDirs /\ created = {}
    /\ files = EmptyMap /\ torn = {}
    /\ lod_tiles = EmptyMap /\ tiles = EmptyMap /\ docs = EmptyMap
    /\ lod = 0 /\ tx = 0 /\ ty = 0
    /\ failure = "none"
    /\ QuantIdle

\* the quantizer is about to be applied to one sample
InitQ ==
    /\ RunIdle
    /\ qv \in QGrays /\ qmin \in QGrays /\ qmax \in QGrays
    /\ qmin <= qmax
    /\ qcode = -1

----------------------------------------------------------------------------
(* process_heightmap, step by step *)

\* lines 66-69: verify that the input exists
CheckInput ==
    /\ pc = "start"
    /\ IF inputKind = "missing"
       THEN pc' = "exited" /\ failure' = "input_missing"
       ELSE pc' = "make_output_dir" /\ failure' = failure
    /\ UNCHANGED <<inputKind, generate_lod, srcW, srcH, img, width, height,
                   min_value, max_value, preDirs, dirs, created, files, torn,
                   lod_tiles, tiles, docs, lod, tx, ty, quantVars>>

\* line 72: os.makedirs(output_dir, exist_ok=True)
MakeOutputDir ==
    /\ pc = "make_output_dir"
    /\ dirs' = dirs \cup {Root}
    /\ created' = created \cup ({Root} \ dirs)
    /\ pc' = "load"
    /\ UNCHANGED <<inputKind, generate_lod, srcW, srcH, img, width, height,
                   min_value, max_value, preDirs, files, torn,
                   lod_tiles, tiles, docs, lod, tx, ty, failure, quantVars>>

\* lines 76-96: open and decode the image (raises on an undecodable file),
\* read its size, scan for the minimum and maximum
LoadImage ==
    /\ pc = "load"
    /\ IF inputKind = "corrupt"
       THEN /\ pc' = "raised" /\ failure' = "decode_error"
            /\ UNCHANGED <<width, height, min_value, max_value>>
       ELSE /\ pc' = "make_lod_dirs" /\ failure' = failure
            /\ width' = srcW /\ height' = srcH
            /\ min_value' = SetMin(SourceGrays)
            /\ max_value' = SetMax(SourceGrays)
    /\ UNCHANGED <<inputKind, generate_lod, srcW, srcH, img, preDirs, dirs,
                   created, files, torn, lod_tiles, tiles, docs, lod, tx, ty,
                   quantVars>>

\* lines 99-103: create the LOD directories
MakeLodDirs ==
    /\ pc = "make_lod_dirs"
    /\ IF generate_lod
       THEN /\ dirs' = dirs \cup AllLodDirs
            /\ created' = created \cup (AllLodDirs \ dirs)
       ELSE UNCHANGED <<dirs, created>>
    /\ pc' = "init_metadata"
    /\ UNCHANGED <<inputKind, generate_lod, srcW, srcH, img, width, height,
                   min_value, max_value, preDirs, files, torn,
                   lod_tiles, tiles, docs, lod, tx, ty, failure, quantVars>>

\* lines 105-141: initialize the metadata and pre-generate the LOD images
\* (whose sizes are LodWidth, LodHeight and whose samples are Pixel)
InitMetadata ==
    /\ pc = "init_metadata"
    /\ tiles' = EmptyMap
    /\ lod_tiles' = [L \in 0..(LevelCount - 1) |-> EmptyMap]
    /\ lod' = 0 /\ tx' = 0 /\ ty' = 0
    /\ pc' = "lod_tiles"
    /\ UNCHANGED <<inputKind, generate_lod, srcW, srcH, img, width, height,
                   min_value, max_value, preDirs, dirs, created, files, torn,
                   docs, failure, quantVars>>

\* lines 310-316: save_tile_binary(path, data, w, h), data being the quantized
\* slice at (x0, y0) of lod_images[L]; the outcome decides what is left
SaveTileBinary(path, L, x0, y0, w, h, outcome) ==
    CASE outcome = "ok" ->
            /\ files' = Put(files, path, TileBytes(L, x0, y0, w, h))
            /\ torn' = torn \ {path}
            /\ failure' = failure
      [] outcome = "open_fails" ->
            /\ UNCHANGED <<files, torn>>
            /\ failure' = IF path.dir \in dirs THEN "io_error" ELSE "missing_dir"
      [] outcome = "header_write_fails" ->
            /\ files' = Put(files, path, EmptyFile)
            /\ torn' = torn \cup {path}
            /\ failure' = "io_error"
      [] outcome = "data_write_fails" ->
            /\ files' = Put(files, path, HeaderOnlyFile(w, h))
            /\ torn' = torn \cup {path}
            /\ failure' = "io_error"

\* a caller that goes on after a write that raised
TileWrittenSwallowed(outcome) == TRUE

\* lines 241 and 294: save_tile_binary returned; when it raised, the
\* exception leaves process_heightmap and nothing after the call runs
TileWritten(outcome) == outcome = "ok"

\* the loops of lines 146-148 and 216-217 move on to the next tile, the next
\* level, or the flat pass
NextLodTile ==
    IF tx + 1 < EffectiveTilesX(lod)
    THEN /\ tx' = tx + 1 /\ ty' = ty /\ lod' = lod /\ pc' = "lod_tiles"
    ELSE IF ty + 1 < EffectiveTilesY(lod)
    THEN /\ tx' = 0 /\ ty' = ty + 1 /\ lod' = lod /\ pc' = "lod_tiles"
    ELSE IF lod + 1 < LevelCount
    THEN /\ tx' = 0 /\ ty' = 0 /\ lod' = lod + 1 /\ pc' = "lod_tiles"
    ELSE /\ tx' = 0 /\ ty' = 0 /\ lod' = 0 /\ pc' = "flat_tiles"

\* lines 218-259: one iteration of process_lod_level_fast's loops (every
\* level has at least one tile, the images being at least 1 x 1)
ProcessLodTile ==
    /\ pc = "lod_tiles"
    /\ LET w    == TileExtent(lod, tx, LodWidth(lod))
           h    == TileExtent(lod, ty, LodHeight(lod))
           path == TilePath(LodDir(lod), tx, ty)
       IN IF w <= 0 \/ h <= 0
          THEN /\ NextLodTile
               /\ UNCHANGED <<files, torn, failure, lod_tiles>>
          ELSE \E outcome \in WriteOutcomes(path.dir) :
                 /\ SaveTileBinary(path, lod, LodSrc(lod, tx), LodSrc(lod, ty), w, h, outcome)
                 /\ IF TileWritten(outcome)
                    THEN /\ lod_tiles' = [lod_tiles EXCEPT ![lod] =
                                            Put(@, <<tx, ty>>, LodTileRecord(lod, tx, ty))]
                         /\ NextLodTile
                    ELSE /\ pc' = "raised"
                         /\ UNCHANGED <<lod_tiles, lod, tx, ty>>
    /\ UNCHANGED <<inputKind, generate_lod, srcW, srcH, img, width, height,
                   min_value, max_value, preDirs, dirs, created, tiles, docs,
                   quantVars>>

\* the loops of lines 273-274 move on to the next tile or to the metadata
NextFlatTile ==
    IF tx + 1 < TilesX
    THEN /\ tx' = tx + 1 /\ ty' = ty /\ pc' = "flat_tiles"
    ELSE IF ty + 1 < TilesY
    THEN /\ tx' = 0 /\ ty' = ty + 1 /\ pc' = "flat_tiles"
    ELSE /\ tx' = 0 /\ ty' = 0 /\ pc' = "save_index"

\* lines 275-303: one iteration of process_flat_tiles' loops
ProcessFlatTile ==
    /\ pc = "flat_tiles"
    /\ LET w    == FlatExtent(tx, width)
           h    == FlatExtent(ty, height)
           path == TilePath(Root, tx, ty)
       IN \E outcome \in WriteOutcomes(path.dir) :
             /\ SaveTileBinary(path, 0, FlatSrc(tx), FlatSrc(ty), w, h, outcome)
             /\ IF TileWritten(outcome)
                THEN /\ tiles' = Put(tiles, <<tx, ty>>, FlatTileRecord(tx, ty))
                     /\ NextFlatTile
                ELSE /\ pc' = "raised"
                     /\ UNCHANGED <<tiles, tx, ty>>
    /\ UNCHANGED <<inputKind, generate_lod, srcW, srcH, img, width, height,
                   min_value, max_value, preDirs, dirs, created, lod_tiles,
                   docs, lod, quantVars>>

\* lines 158-162: json.dump(metadata) into tile_index.json
SaveIndex ==
    /\ pc = "save_index"
    /\ docs' = Put(docs, "tile_index.json",
                   [version       |-> 2,
                    source_width  |-> width,
                    source_height |-> height,
                    tile_size     |-> TILE_SIZE,
                    tiles_x       |-> TilesX,
                    tiles_y       |-> TilesY,
                    min_value     |-> min_value,
                    max_value     |-> max_value,
                    lod_levels    |-> LevelCount,
                    tiles         |-> tiles,
                    lod_tiles     |-> lod_tiles])
    /\ pc' = "save_tileset"
    /\ UNCHANGED <<inputKind, generate_lod, srcW, srcH, img, width, height,
                   min_value, max_value, preDirs, dirs, created, files, torn,
                   lod_tiles, tiles, lod, tx, ty, failure, quantVars>>

\* lines 164-181: json.dump(tileset) into tileset.json
SaveTileset ==
    /\ pc = "save_tileset"
    /\ docs' = Put(docs, "tileset.json",
                   [version       |-> 1,
                    source_width  |-> width,
                    source_height |-> height,
                    tile_size     |-> TILE_SIZE,
                    tiles_x       |-> TilesX,
                    tiles_y       |-> TilesY,
                    min_value     |-> min_value,
                    max_value     |-> max_value,
                    tiles         |-> tiles])
    /\ pc' = "done"
    /\ UNCHANGED <<inputKind, generate_lod, srcW, srcH, img, width, height,
                   min_value, max_value, preDirs, dirs, created, files, torn,
                   lod_tiles, tiles, lod, tx, ty, failure, quantVars>>

Next ==
    \/ CheckInput
    \/ MakeOutputDir
    \/ LoadImage
    \/ MakeLodDirs
    \/ InitMetadata
    \/ ProcessLodTile
    \/ ProcessFlatTile
    \/ SaveIndex
    \/ SaveTileset

Spec == Init /\ [][Next]_vars

----------------------------------------------------------------------------
(* The quantizer by itself *)

\* lines 233-237 and 286-290 applied to one sample
QuantizeSample ==
    /\ qcode = -1
    /\ qcode' = Quantize(qv, qmin, qmax)
    /\ UNCHANGED <<qv, qmin, qmax, runVars>>

NextQ == QuantizeSample

SpecQ == InitQ /\ [][NextQ]_vars

----------------------------------------------------------------------------
(* Vocabulary of the properties *)

Rect(x, y, w, h) == [x |-> x, y |-> y, w |-> w, h |-> h]

Disjoint(a, b) ==
    \/ a.x + a.w <= b.x \/ b.x + b.w <= a.x
    \/ a.y + a.h <= b.y \/ b.y + b.h <= a.y

Inside(r, W, H) ==
    /\ r.w > 0 /\ r.h > 0 /\ r.x >= 0 /\ r.y >= 0
    /\ r.x + r.w <= W /\ r.y + r.h <= H

RECURSIVE AreaSum(_, _)
AreaSum(R, K) ==
    IF K = {} THEN 0
    ELSE LET k == CHOOSE a \in K : TRUE
         IN R[k].w * R[k].h + AreaSum(R, K \ {k})

PairwiseDisjoint(R) ==
    \A a \in DOMAIN R : \A b \in DOMAIN R : a # b => Disjoint(R[a], R[b])

\* the rectangles of R are pairwise disjoint and their union is [0,W) x [0,H)
Partitions(R, W, H) ==
    /\ \A k \in DOMAIN R : Inside(R[k], W, H)
    /\ PairwiseDisjoint(R)
    /\ AreaSum(R, DOMAIN R) = W * H

\* every tile of level L has been processed
LevelComplete(L) ==
    /\ L \in DOMAIN lod_tiles
    /\ \/ pc \in {"flat_tiles", "save_index", "save_tileset", "done"}
       \/ pc = "lod_tiles" /\ lod > L

\* the recorded source footprints of level L
Footprints(L) ==
    [k \in DOMAIN lod_tiles[L] |->
        Rect(lod_tiles[L][k].src_x, lod_tiles[L][k].src_y,
             lod_tiles[L][k].src_w, lod_tiles[L][k].src_h)]

\* the sample regions of the files of level L, in the level's own field
StoredRegions(L) ==
    [k \in DOMAIN lod_tiles[L] |->
        LET f == files[lod_tiles[L][k].file]
        IN Rect(f.origin[1], f.origin[2], f.cols, f.rows)]

\* width and height a tile file's header declares (little-endian)
HeaderW(f) == f.hdr[1] + 256 * f.hdr[2]

HeaderH(f) == f.hdr[3] + 256 * f.hdr[4]

\* <<file, width, height>> of every metadata record
RecordedTiles ==
    UNION {{<<lod_tiles[L][k].file, lod_tiles[L][k].width, lod_tiles[L][k].height>> :
              k \in DOMAIN lod_tiles[L]} : L \in DOMAIN lod_tiles}
    \cup {<<tiles[k].file, tiles[k].width, tiles[k].height>> : k \in DOMAIN tiles}

\* the files whose write completed
WrittenFiles == DOMAIN files \ torn

----------------------------------------------------------------------------
(* C1: recorded provenance *)

\* C1 as stated: every tile (tx, ty) recorded at level L has
\* src_x = tx * T * 2^L, src_y = ty * T * 2^L, src_w = min(T * 2^L,
\* source_width - src_x) and src_h = min(T * 2^L, source_height - src_y).
C1_Stated ==
    \A L \in DOMAIN lod_tiles : \A k \in DOMAIN lod_tiles[L] :
        LET r == lod_tiles[L][k] IN
        /\ r.src_x = k[1] * TILE_SIZE * Pow2(L)
        /\ r.src_y = k[2] * TILE_SIZE * Pow2(L)
        /\ r.src_w = Min2(TILE_SIZE * Pow2(L), width - r.src_x)
        /\ r.src_h = Min2(TILE_SIZE * Pow2(L), height - r.src_y)

\* C1 amended: every tile (tx, ty) recorded at level L has src_x = tx * T and
\* src_y = ty * T (not scaled by 2^L), with src_w = min(T * 2^L,
\* source_width - src_x) and src_h = min(T * 2^L, source_height - src_y).
C1_Provenance ==
    \A L \in DOMAIN lod_tiles : \A k \in DOMAIN lod_tiles[L] :
        LET r == lod_tiles[L][k] IN
        /\ r.src_x = k[1] * TILE_SIZE
        /\ r.src_y = k[2] * TILE_SIZE
        /\ r.src_w = Min2(TILE_SIZE * Pow2(L), width - r.src_x)
        /\ r.src_h = Min2(TILE_SIZE * Pow2(L), height - r.src_y)

\* a tile away from the origin is recorded at a level above 0, with a
\* clipped footprint
C1_Witness ==
    \E L \in DOMAIN lod_tiles : \E k \in DOMAIN lod_tiles[L] :
        /\ L >= 1 /\ k[1] >= 1 /\ k[2] >= 1
        /\ lod_tiles[L][k].src_w < TILE_SIZE * Pow2(L)

----------------------------------------------------------------------------
(* C2: the tile grid of a level *)

\* C2: level L, of field size W_L x H_L and tile edge E = max(512 \div 2^L,
\* 32), records exactly ceil(W_L/E) * ceil(H_L/E) tiles; tile (tx, ty) covers
\* [tx*E, min((tx+1)*E, W_L)) x [ty*E, min((ty+1)*E, H_L)), so its width and
\* height are at most E, equal to E off the last column and row, and the
\* stored tiles partition the field without padding.
C2_TileGrid ==
    \A L \in DOMAIN lod_tiles :
        LET E  == Max2(512 \div Pow2(L), 32)
            WL == LodWidth(L)
            HL == LodHeight(L)
            cx == CeilDiv(WL, E)
            cy == CeilDiv(HL, E)
        IN /\ \A k \in DOMAIN lod_tiles[L] :
                LET r == lod_tiles[L][k]
                    f == files[r.file]
                IN /\ k[1] \in 0..(cx - 1) /\ k[2] \in 0..(cy - 1)
                   /\ r.width = Min2((k[1] + 1) * E, WL) - k[1] * E
                   /\ r.height = Min2((k[2] + 1) * E, HL) - k[2] * E
                   /\ r.width <= E /\ r.height <= E
                   /\ k[1] < cx - 1 => r.width = E
                   /\ k[2] < cy - 1 => r.height = E
                   /\ f.origin = <<k[1] * E, k[2] * E>>
                   /\ f.cols = r.width /\ f.rows = r.height
           /\ LevelComplete(L) =>
                /\ DOMAIN lod_tiles[L] = (0..(cx - 1)) \X (0..(cy - 1))
                /\ Cardinality(DOMAIN lod_tiles[L]) = cx * cy
                /\ Partitions(StoredRegions(L), WL, HL)

\* the 1000 x 700 source has been tiled: a 2 x 2 grid at level 0 whose tile
\* (1,1) is 488 x 188
C2_Witness ==
    /\ width = 1000 /\ height = 700
    /\ LevelComplete(0)
    /\ DOMAIN lod_tiles[0] = {<<0, 0>>, <<1, 0>>, <<0, 1>>, <<1, 1>>}
    /\ lod_tiles[0][<<1, 1>>].width = 488
    /\ lod_tiles[0][<<1, 1>>].height = 188

----------------------------------------------------------------------------
(* C3: quantization *)

\* C3 as stated: the code of a sample v is the integer nearest to
\* clamp((v - min) / range, 0, 1) * 65535, range being max - min, or 1.0 when
\* max = min (v, min, max on the grid k/255).
C3_Stated ==
    qcode # -1 =>
        LET num == IF qmax > qmin THEN (qv - qmin) * 65535 ELSE (qv - qmin) * 257
            den == IF qmax > qmin THEN qmax - qmin ELSE 1
        IN IF num <= 0 THEN qcode = 0
           ELSE IF num >= 65535 * den THEN qcode = 65535
           ELSE /\ 2 * (qcode * den - num) <= den
                /\ 2 * (num - qcode * den) <= den

----------------------------------------------------------------------------
(* C4: coverage at level 0 *)

\* C4: the source footprints recorded at level 0 are pairwise disjoint and
\* their union is exactly [0, source_width) x [0, source_height).
C4_Level0Coverage ==
    LevelComplete(0) => Partitions(Footprints(0), width, height)

\* level 0 is complete with several tiles, the last ones partial
C4_Witness ==
    /\ LevelComplete(0)
    /\ Cardinality(DOMAIN lod_tiles[0]) >= 4
    /\ width % TILE_SIZE # 0 /\ height % TILE_SIZE # 0

----------------------------------------------------------------------------
(* C5: the flat tile set duplicates level 0 *)

\* C5: after a completed run, metadata["tiles"] has the keys of
\* metadata["lod_tiles"]["0"], each flat entry has the width, height, src_x and
\* src_y of the level-0 entry, and each flat file holds the bytes of the
\* level-0 file.
C5_FlatDuplicatesLevel0 ==
    pc = "done" =>
        /\ DOMAIN tiles = DOMAIN lod_tiles[0]
        /\ \A k \in DOMAIN tiles :
            /\ tiles[k].width = lod_tiles[0][k].width
            /\ tiles[k].height = lod_tiles[0][k].height
            /\ tiles[k].src_x = lod_tiles[0][k].src_x
            /\ tiles[k].src_y = lod_tiles[0][k].src_y
            /\ tiles[k].file = TilePath(Root, k[1], k[2])
            /\ lod_tiles[0][k].file = TilePath(LodDir(0), k[1], k[2])
            /\ files[tiles[k].file] = files[lod_tiles[0][k].file]

\* a run completed with several flat tiles, partial ones among them
C5_Witness ==
    /\ pc = "done"
    /\ Cardinality(DOMAIN tiles) >= 4
    /\ \E k \in DOMAIN tiles : tiles[k].width < TILE_SIZE

----------------------------------------------------------------------------
(* C6: the tile file format *)

\* C6: every file written by save_tile_binary is 4 + 2*w*h bytes long, w and
\* h being the little-endian 16-bit integers of its header, followed by the
\* codes of h rows of w samples; and (w, h) are the width and height the
\* metadata records for that tile.
C6_FileFormat ==
    /\ \A p \in WrittenFiles :
        LET f == files[p] IN
        /\ f.nbytes = 4 + 2 * HeaderW(f) * HeaderH(f)
        /\ f.cols = HeaderW(f) /\ f.rows = HeaderH(f)
        /\ \E t \in RecordedTiles : t[1] = p
    /\ \A t \in RecordedTiles :
        /\ t[1] \in WrittenFiles
        /\ HeaderW(files[t[1]]) = t[2]
        /\ HeaderH(files[t[1]]) = t[3]

\* a full tile (512 = 0x0200 on an axis) and a partial tile have been written
C6_Witness ==
    /\ \E p \in WrittenFiles : files[p].hdr = <<0, 2, 0, 2>>
    /\ \E p \in WrittenFiles : files[p].hdr = <<232, 1, 188, 0>>

----------------------------------------------------------------------------
(* C7: a failed tile write aborts the run *)

\* C7: when a tile write fails, the run stops at that write, no further
\* tile and no metadata document is written; so every tile a written
\* metadata document lists was written by the run.
C7_WriteFailureAborts ==
    /\ failure \in {"io_error", "missing_dir"} =>
        /\ pc = "raised"
        /\ docs = EmptyMap
        /\ ~ ENABLED Next
    /\ torn # {} => failure = "io_error"
    /\ \A d \in DOMAIN docs : \A k \in DOMAIN docs[d].tiles :
        docs[d].tiles[k].file \in WrittenFiles
    /\ "tile_index.json" \in DOMAIN docs =>
        \A L \in DOMAIN docs["tile_index.json"].lod_tiles :
            \A k \in DOMAIN docs["tile_index.json"].lod_tiles[L] :
                docs["tile_index.json"].lod_tiles[L][k].file \in WrittenFiles

\* a write failed after other tiles had been written and recorded
C7_Witness ==
    /\ failure = "io_error"
    /\ torn # {}
    /\ WrittenFiles # {}
    /\ RecordedTiles # {}

----------------------------------------------------------------------------
(* C8: input errors *)

\* C8 as stated: when the run ends on an input error (source missing or
\* undecodable), it has created no directory, tile file or metadata file.
C8_Stated ==
    failure \in {"input_missing", "decode_error"} =>
        /\ created = {}
        /\ files = EmptyMap
        /\ docs = EmptyMap

----------------------------------------------------------------------------
(* C9: tile directories *)

\* C9 as stated: in a run that starts from an empty output location, with
\* generate_lod true or false, every tile write to lod{L}/ comes after the
\* creation of lod{L}/, so the run never fails on a missing tile directory.
C9_Stated ==
    preDirs = {} =>
        /\ failure # "missing_dir"
        /\ \A p \in DOMAIN files : p.dir \in created

----------------------------------------------------------------------------
(* C10: footprints at every level *)

\* C10 as stated: within each level L the recorded footprints of distinct
\* tiles are pairwise disjoint, each has src_w > 0 and src_h > 0, lies inside
\* the source, and is [tx*E*2^L, (tx+1)*E*2^L) x [ty*E*2^L, (ty+1)*E*2^L)
\* clipped to the source extent, E being the tile edge at level L.
C10_Stated ==
    \A L \in DOMAIN lod_tiles :
        LET E == TileSizeAtLod(L)
            F == Footprints(L)
        IN /\ PairwiseDisjoint(F)
           /\ \A k \in DOMAIN F :
                /\ Inside(F[k], width, height)
                /\ F[k].x = k[1] * E * Pow2(L)
                /\ F[k].y = k[2] * E * Pow2(L)
                /\ F[k].x + F[k].w = Min2((k[1] + 1) * E * Pow2(L), width)
                /\ F[k].y + F[k].h = Min2((k[2] + 1) * E * Pow2(L), height)

====
